---- MODULE Spec2Model ----
(***************************************************************************)
(* Model of scanner_dashboard.py: the out-of-hours volume scanner.         *)
(*                                                                         *)
(* Units.  Prices are integers in mills (1/1000 dollar), so that           *)
(* round(price, 2) is a real conversion (to a multiple of 10 mills).       *)
(* Volumes are shares.  A Python float that is a quotient is kept as the   *)
(* exact rational [num, den] with den > 0; comparisons cross-multiply and  *)
(* round(x, 2) yields an integer number of hundredths (ties to even).      *)
(* A timestamp "t" is in milliseconds counted from local midnight of the   *)
(* queried date, so datetime.fromtimestamp(t / 1000) is a computation of   *)
(* hour, minute, second and microsecond.                                   *)
(* An optional value (Python None, or a key a JSON object may lack) is a   *)
(* sequence: << >> for absent, <<x>> for x.                                *)
(* A dict is a function; its iteration order is kept in a separate         *)
(* sequence of keys where the code iterates it.                            *)
(***************************************************************************)
EXTENDS Integers, Sequences, FiniteSets, TLC

\* ---------------------------------------------------------------- bounds
MaxTickers == 3
MaxBars == 2
MaxExtra == 1

\* ------------------------------------------------------ program constants
\* st.sidebar defaults (lines 15-18); MIN_PRICE is 2.0 dollars in mills,
\* OORVOL_THRESHOLD is 1.2 as a rational.
OORVOL_THRESHOLD == [num |-> 12, den |-> 10]
MIN_AVG_VOLUME == 1000000
MIN_PRICE == 2000
OOH_PRICE_THRESHOLD == 2
\* the window of fetch_21d_avg_volume: [-21:], >= 21, / 21
AVG_DAYS == 21

Tickers == 1..MaxTickers

\* ------------------------------------------------------------- Python values
None == << >>
Some(x) == <<x>>
\* truthiness of an optional number: None and 0 are falsy
Truthy(o) == o # None /\ o[1] # 0

RECURSIVE SumSeq(_)
SumSeq(s) == IF s = << >> THEN 0 ELSE Head(s) + SumSeq(Tail(s))

\* a quotient n / d as an exact rational with a positive denominator
Quot(n, d) == IF d < 0 THEN [num |-> -n, den |-> -d] ELSE [num |-> n, den |-> d]
\* r < k for a rational r and an integer (or rational) threshold
LessInt(r, k) == r.num < k * r.den
LessRat(r, q) == r.num * q.den < q.num * r.den

\* round(n / d, 0) for d > 0, ties to even
RoundHalfEven(n, d) ==
    LET q == n \div d
        r == n % d
    IN  IF 2 * r > d \/ (2 * r = d /\ q % 2 = 1) THEN q + 1 ELSE q

\* round(r, 2) for a rational r, in hundredths; long division keeps the
\* intermediate products small
Round2(r) ==
    LET d  == r.den
        q  == r.num \div d
        r1 == r.num % d
        d1 == (10 * r1) \div d
        r2 == (10 * r1) % d
        d2 == (10 * r2) \div d
        r3 == (10 * r2) % d
        base == 100 * q + 10 * d1 + d2
    IN  IF 2 * r3 > d \/ (2 * r3 = d /\ base % 2 = 1) THEN base + 1 ELSE base

\* round(price, 2) for a price in mills: a multiple of 10 mills
RoundCents(x) == 10 * RoundHalfEven(x, 10)

\* ------------------------------------------------------------------ fetch
\* (st.cache_data only replays an earlier answer for the same url; it is not
\* modelled)
\* A response of the data source: the request failed (status "error"), or a
\* JSON object that has a "results" list or has none.
EmptyDict == [has_results |-> FALSE, results |-> << >>]
NetErr == [status |-> "error", has_results |-> FALSE, results |-> << >>]
NoResults == [status |-> "ok", has_results |-> FALSE, results |-> << >>]
Ok(items) == [status |-> "ok", has_results |-> TRUE, results |-> items]

fetch(response) ==
    IF response.status = "error"
    THEN EmptyDict
    ELSE [has_results |-> response.has_results, results |-> response.results]

\* data.get("results", [])
GetResults(data) == IF data.has_results THEN data.results ELSE << >>

\* ------------------------------------------- get_grouped_data_with_metadata
\* {item["T"]: item["c"] for item in results}: a later item overwrites
DictOfCloses(items) ==
    [t \in {items[k].T[1] : k \in DOMAIN items} |->
        LET last == CHOOSE k \in DOMAIN items :
                        /\ items[k].T[1] = t
                        /\ \A j \in DOMAIN items : items[j].T[1] = t => j <= k
        IN  items[last].c[1]]

\* insertion order of the keys of that dict
RECURSIVE KeyOrder(_, _)
KeyOrder(items, seen) ==
    IF items = << >> THEN << >>
    ELSE LET t == Head(items).T[1]
         IN  IF t \in seen THEN KeyOrder(Tail(items), seen)
             ELSE <<t>> \o KeyOrder(Tail(items), seen \cup {t})

\* item["T"] or item["c"] raises KeyError
GroupedKeyError(items) == \E k \in DOMAIN items : items[k].T = None \/ items[k].c = None

\* line 47 and line 49
UniverseGuard(today_close, in_prev, prev_close) ==
    /\ today_close # 0
    /\ in_prev
    /\ prev_close # 0
    /\ today_close >= MIN_PRICE

get_grouped_data_with_metadata(today_response, prev_response) ==
    LET td == GetResults(fetch(today_response))
        pd == GetResults(fetch(prev_response))
    IN  IF GroupedKeyError(td) \/ GroupedKeyError(pd)
        THEN [raised |-> TRUE, metadata |-> << >>, order |-> << >>]
        ELSE
          LET today_results == DictOfCloses(td)
              prev_results == DictOfCloses(pd)
              keep == {t \in DOMAIN today_results :
                          UniverseGuard(today_results[t],
                                        t \in DOMAIN prev_results,
                                        IF t \in DOMAIN prev_results
                                        THEN prev_results[t] ELSE 0)}
          IN  [raised |-> FALSE,
               metadata |->
                 [t \in keep |->
                    [close |-> RoundCents(today_results[t]),
                     pct_change |->
                        Round2(Quot((today_results[t] - prev_results[t]) * 100,
                                    prev_results[t])),
                     prev_close |-> RoundCents(prev_results[t])]],
               order |-> SelectSeq(KeyOrder(td, {}), LAMBDA t : t \in keep)]

\* ------------------------------------------------------ fetch_21d_avg_volume
\* d['v'] raises KeyError
VolumeKeyError(items) == \E k \in DOMAIN items : items[k].v = None

\* the slice [-21:]
LastDays(s) ==
    IF Len(s) <= AVG_DAYS THEN s ELSE SubSeq(s, Len(s) - AVG_DAYS + 1, Len(s))

\* the length test off by one: 20 samples are averaged over 21
EnoughSamplesOffByOne(volumes) == Len(volumes) >= AVG_DAYS - 1

\* line 62
EnoughSamples(volumes) == Len(volumes) >= AVG_DAYS

fetch_21d_avg_volume(response) ==
    LET items == GetResults(fetch(response))
    IN  IF VolumeKeyError(items)
        THEN [raised |-> TRUE, ret |-> None]
        ELSE
          LET volumes == LastDays([k \in DOMAIN items |-> items[k].v[1]])
              avg_vol == Quot(SumSeq(volumes), AVG_DAYS)
          IN  [raised |-> FALSE,
               ret |-> IF EnoughSamples(volumes) /\ ~LessInt(avg_vol, MIN_AVG_VOLUME)
                       THEN Some(avg_vol)
                       ELSE None]

\* ---------------------------------------------------------- fetch_ooh_volume
\* datetime.fromtimestamp(c["t"] / 1000)
fromtimestamp(t) ==
    [hour |-> (t \div 3600000) % 24,
     minute |-> (t \div 60000) % 60,
     second |-> (t \div 1000) % 60,
     microsecond |-> (t % 1000) * 1000]

\* line 83
IsPost(dt) == dt.hour >= 16
\* the pre-market test with the opening minute let in
IsPreThroughOpen(dt) == dt.hour < 9 \/ (dt.hour = 9 /\ dt.minute <= 30)

\* line 92
IsPre(dt) == dt.hour < 9 \/ (dt.hour = 9 /\ dt.minute < 30)

\* c["t"] raises for any bar, c["v"] and c["c"] for a bar of the subset
PostKeyError(bars) ==
    \E k \in DOMAIN bars :
        \/ bars[k].t = None
        \/ IsPost(fromtimestamp(bars[k].t[1])) /\ (bars[k].v = None \/ bars[k].c = None)
PreKeyError(bars) ==
    \E k \in DOMAIN bars :
        \/ bars[k].t = None
        \/ IsPre(fromtimestamp(bars[k].t[1])) /\ (bars[k].v = None \/ bars[k].c = None)

FirstOrNone(s) == IF s = << >> THEN None ELSE Some(s[1])
LastOrNone(s) == IF s = << >> THEN None ELSE Some(s[Len(s)])

fetch_ooh_volume(response_yesterday, response_today) ==
    LET by == GetResults(fetch(response_yesterday))
        bt == GetResults(fetch(response_today))
    IN  IF PostKeyError(by) \/ PreKeyError(bt)
        THEN [raised |-> TRUE, ret |-> None]
        ELSE
          LET postb == SelectSeq(by, LAMBDA c : IsPost(fromtimestamp(c.t[1])))
              preb == SelectSeq(bt, LAMBDA c : IsPre(fromtimestamp(c.t[1])))
              post == SumSeq([k \in DOMAIN postb |-> postb[k].v[1]])
              pre == SumSeq([k \in DOMAIN preb |-> preb[k].v[1]])
              pre_times == [k \in DOMAIN preb |-> fromtimestamp(preb[k].t[1])]
              post_times == [k \in DOMAIN postb |-> fromtimestamp(postb[k].t[1])]
              pre_prices == [k \in DOMAIN preb |-> preb[k].c[1]]
              post_prices == [k \in DOMAIN postb |-> postb[k].c[1]]
          IN  [raised |-> FALSE,
               ret |-> Some([volume |-> pre + post,
                             pre_start |-> FirstOrNone(pre_times),
                             pre_end |-> LastOrNone(pre_times),
                             post_start |-> FirstOrNone(post_times),
                             post_end |-> LastOrNone(post_times),
                             pre_price |-> FirstOrNone(pre_prices),
                             post_price |-> LastOrNone(post_prices)])]

\* ------------------------------------------------------ the scorer's loop body
\* the percent change taken against the D-2 close
LastCloseFromPrev(meta) == meta.prev_close

\* line 139: last_close = meta.get("close")
LastClose(meta) == meta.close

\* the two tests with <= in place of <
PassesThresholdsStrict(ooh_pct_change, oorvol) ==
    /\ ~(ooh_pct_change.num <= OOH_PRICE_THRESHOLD * ooh_pct_change.den)
    /\ ~(oorvol.num * OORVOL_THRESHOLD.den <= OORVOL_THRESHOLD.num * oorvol.den)

\* lines 147-150: the two "continue" tests, negated
PassesThresholds(ooh_pct_change, oorvol) ==
    /\ ~LessInt(ooh_pct_change, OOH_PRICE_THRESHOLD)
    /\ ~LessRat(oorvol, OORVOL_THRESHOLD)

\* ooh_map.get(ticker, {}) followed by the .get calls of lines 136-138
EmptyOoh == [volume |-> 0, pre_start |-> None, pre_end |-> None,
             post_start |-> None, post_end |-> None,
             pre_price |-> None, post_price |-> None]

\* lines 134-165 for one ticker: the row appended, and the locals computed
ScoreOne(ticker, avg_vol, ooh_data, meta) ==
    LET ooh_vol == ooh_data.volume
        pre_price == ooh_data.pre_price
        post_price == ooh_data.post_price
        last_close == LastClose(meta)
    IN  IF ~Truthy(pre_price) \/ ~Truthy(post_price) \/ last_close = 0
        THEN [evaluated |-> FALSE, row |-> None, locals |-> None]
        ELSE
          LET ooh_pct_change == Quot((pre_price[1] - last_close) * 100, last_close)
              oorvol == IF avg_vol.num # 0
                        THEN Quot(ooh_vol * avg_vol.den, avg_vol.num)
                        ELSE Quot(0, 1)
              locals == [ticker |-> ticker,
                         ooh_pct_change |-> ooh_pct_change,
                         oorvol |-> oorvol]
          IN  IF ~PassesThresholds(ooh_pct_change, oorvol)
              THEN [evaluated |-> TRUE, row |-> None, locals |-> Some(locals)]
              ELSE [evaluated |-> TRUE,
                    locals |-> Some(locals),
                    row |-> Some(
                      [Ticker |-> ticker,
                       AvgVolume21D |-> avg_vol.num \div avg_vol.den,
                       OOHVolume |-> ooh_vol,
                       OORVOL |-> Round2(oorvol),
                       OOHPriceChange |-> RoundCents(pre_price[1] - last_close),
                       OOHPctChange |-> Round2(ooh_pct_change),
                       LastClose |-> last_close,
                       DailyPctChange |-> meta.pct_change,
                       PreStart |-> ooh_data.pre_start,
                       PreEnd |-> ooh_data.pre_end,
                       PostStart |-> ooh_data.post_start,
                       PostEnd |-> ooh_data.post_end])]

\* ------------------------------------------------------------- sort_values
Perms(n) == {p \in [1..n -> 1..n] : \A a, b \in 1..n : p[a] = p[b] => a = b}

\* df.sort_values("OORVOL", ascending=False) with the default kind, quicksort:
\* descending in the key; the order of rows with equal keys is whatever the
\* build's argsort yields
SortedByOorvol(rows) ==
    {[k \in 1..Len(rows) |-> rows[p[k]]] : p \in
        {q \in Perms(Len(rows)) :
            \A a, b \in 1..Len(rows) : a < b => rows[q[a]].OORVOL >= rows[q[b]].OORVOL}}

\* ------------------------------------------------------------------ state
VARIABLES
    pc,              \* where main_async is: "start", "gather_volume",
                     \* "gather_ooh", "score", "done", "raised"
    exc,             \* the function whose exception left main_async, or None
    today_data,      \* the response to the D-1 grouped request, once made
    prev_data,       \* the response to the D-2 grouped request, once made
    metadata_map,
    tickers,
    vol_data,        \* per ticker, the response to its daily-volume request
    vol_task,        \* per ticker, the state of its fetch_21d_avg_volume task
    volume_results,
    volume_map,
    data_yesterday,  \* per ticker, the responses to its two minute-bar requests
    data_today,
    ooh_task,        \* per ticker, the state of its fetch_ooh_volume task
    ooh_results,
    ooh_map,
    loop_i,          \* the position of the loop of line 133 in volume_map
    scored,          \* the locals of the iterations that reached line 144
    results,
    df               \* the value main_async returns, once it has

vars == <<pc, exc, today_data, prev_data, metadata_map, tickers, vol_data,
          vol_task, volume_results, volume_map, data_yesterday, data_today,
          ooh_task, ooh_results, ooh_map, loop_i, scored, results, df>>

EmptyMap == [t \in {} |-> None]

Init ==
    /\ pc = "start"
    /\ exc = None
    /\ today_data = None
    /\ prev_data = None
    /\ metadata_map = EmptyMap
    /\ tickers = << >>
    /\ vol_data = [t \in Tickers |-> None]
    /\ vol_task = [t \in Tickers |-> "none"]
    /\ volume_results = [t \in Tickers |-> None]
    /\ volume_map = EmptyMap
    /\ data_yesterday = [t \in Tickers |-> None]
    /\ data_today = [t \in Tickers |-> None]
    /\ ooh_task = [t \in Tickers |-> "none"]
    /\ ooh_results = [t \in Tickers |-> None]
    /\ ooh_map = EmptyMap
    /\ loop_i = 0
    /\ scored = << >>
    /\ results = << >>
    /\ df = None

\* a gather that returns with the first task that has returned
AnyDone(task) ==
    \/ \A t \in Tickers : task[t] = "none"
    \/ \E t \in Tickers : task[t] = "done"

\* asyncio.gather(*tasks) returns once every task it was given has returned
AllDone(task) == \A t \in Tickers : task[t] \in {"none", "done"}

\* the keys of volume_map in iteration order (the order of the tasks, line 113)
VolumeOrder == SelectSeq(tickers, LAMBDA t : t \in DOMAIN volume_map)

\* lines 110-114: the two grouped requests, the universe, and one
\* fetch_21d_avg_volume task per ticker of it
GetGroupedData(TodayResponses, PrevResponses) ==
    /\ pc = "start"
    /\ \E tr \in TodayResponses, pr \in PrevResponses :
         LET g == get_grouped_data_with_metadata(tr, pr)
         IN  /\ today_data' = Some(tr)
             /\ prev_data' = Some(pr)
             /\ pc' = IF g.raised THEN "raised" ELSE "gather_volume"
             /\ exc' = IF g.raised THEN Some("get_grouped_data_with_metadata") ELSE None
             /\ metadata_map' = IF g.raised THEN metadata_map ELSE g.metadata
             /\ tickers' = g.order
             /\ vol_task' = [t \in Tickers |->
                               IF ~g.raised /\ t \in DOMAIN g.metadata
                               THEN "pending" ELSE "none"]
    /\ UNCHANGED <<vol_data, volume_results, volume_map, data_yesterday, data_today,
                   ooh_task, ooh_results, ooh_map, loop_i, scored, results, df>>

\* one fetch_21d_avg_volume task runs to its return or to its exception
VolumeFetch(t, Responses) ==
    /\ pc = "gather_volume"
    /\ vol_task[t] = "pending"
    /\ \E r \in Responses :
         LET f == fetch_21d_avg_volume(r)
         IN  /\ vol_data' = [vol_data EXCEPT ![t] = Some(r)]
             /\ vol_task' = [vol_task EXCEPT ![t] = IF f.raised THEN "failed" ELSE "done"]
             /\ volume_results' = [volume_results EXCEPT ![t] = f.ret]
    /\ UNCHANGED <<pc, exc, today_data, prev_data, metadata_map, tickers, volume_map,
                   data_yesterday, data_today, ooh_task, ooh_results, ooh_map,
                   loop_i, scored, results, df>>

\* lines 114-118: the gather returns; volume_map; one fetch_ooh_volume task
\* per key of volume_map
GatherVolume ==
    /\ pc = "gather_volume"
    /\ AllDone(vol_task)
    /\ volume_map' = [t \in {u \in Tickers : vol_task[u] = "done" /\ volume_results[u] # None}
                        |-> volume_results[t][1]]
    /\ ooh_task' = [t \in Tickers |->
                      IF t \in DOMAIN volume_map' THEN "pending" ELSE "none"]
    /\ pc' = "gather_ooh"
    /\ UNCHANGED <<exc, today_data, prev_data, metadata_map, tickers, vol_data, vol_task,
                   volume_results, data_yesterday, data_today, ooh_results, ooh_map,
                   loop_i, scored, results, df>>

\* line 114: a task raised, the gather re-raises it, main_async and the
\* session end, and the tasks still running are never finished
GatherVolumeRaise ==
    /\ pc = "gather_volume"
    /\ \E t \in Tickers : vol_task[t] = "failed"
    /\ pc' = "raised"
    /\ exc' = Some("fetch_21d_avg_volume")
    /\ vol_task' = [t \in Tickers |->
                      IF vol_task[t] = "pending" THEN "cancelled" ELSE vol_task[t]]
    /\ UNCHANGED <<today_data, prev_data, metadata_map, tickers, vol_data,
                   volume_results, volume_map, data_yesterday, data_today, ooh_task,
                   ooh_results, ooh_map, loop_i, scored, results, df>>

\* one fetch_ooh_volume task runs to its return or to its exception
OohFetch(t, YesterdayResponses, TodayResponses) ==
    /\ pc = "gather_ooh"
    /\ ooh_task[t] = "pending"
    /\ \E ry \in YesterdayResponses, rt \in TodayResponses :
         LET f == fetch_ooh_volume(ry, rt)
         IN  /\ data_yesterday' = [data_yesterday EXCEPT ![t] = Some(ry)]
             /\ data_today' = [data_today EXCEPT ![t] = Some(rt)]
             /\ ooh_task' = [ooh_task EXCEPT ![t] = IF f.raised THEN "failed" ELSE "done"]
             /\ ooh_results' = [ooh_results EXCEPT ![t] = f.ret]
    /\ UNCHANGED <<pc, exc, today_data, prev_data, metadata_map, tickers, vol_data,
                   vol_task, volume_results, volume_map, ooh_map, loop_i, scored,
                   results, df>>

\* lines 118-132: the gather returns; ooh_map; the loop starts
GatherOoh ==
    /\ pc = "gather_ooh"
    /\ AllDone(ooh_task)
    /\ ooh_map' = [t \in {u \in Tickers : ooh_task[u] = "done"} |-> ooh_results[t][1]]
    /\ pc' = "score"
    /\ loop_i' = 1
    /\ UNCHANGED <<exc, today_data, prev_data, metadata_map, tickers, vol_data, vol_task,
                   volume_results, volume_map, data_yesterday, data_today, ooh_task,
                   ooh_results, scored, results, df>>

GatherOohRaise ==
    /\ pc = "gather_ooh"
    /\ \E t \in Tickers : ooh_task[t] = "failed"
    /\ pc' = "raised"
    /\ exc' = Some("fetch_ooh_volume")
    /\ ooh_task' = [t \in Tickers |->
                      IF ooh_task[t] = "pending" THEN "cancelled" ELSE ooh_task[t]]
    /\ UNCHANGED <<today_data, prev_data, metadata_map, tickers, vol_data, vol_task,
                   volume_results, volume_map, data_yesterday, data_today,
                   ooh_results, ooh_map, loop_i, scored, results, df>>

\* lines 133-165: one iteration of the scorer's loop
ScoreTicker ==
    /\ pc = "score"
    /\ loop_i <= Len(VolumeOrder)
    /\ LET ticker == VolumeOrder[loop_i]
           s == ScoreOne(ticker, volume_map[ticker],
                         IF ticker \in DOMAIN ooh_map THEN ooh_map[ticker] ELSE EmptyOoh,
                         metadata_map[ticker])
       IN  /\ scored' = scored \o s.locals
           /\ results' = results \o s.row
    /\ loop_i' = loop_i + 1
    /\ UNCHANGED <<pc, exc, today_data, prev_data, metadata_map, tickers, vol_data,
                   vol_task, volume_results, volume_map, data_yesterday, data_today,
                   ooh_task, ooh_results, ooh_map, df>>

\* lines 167-169: pd.DataFrame(results) has no column at all when results is
\* empty, and sort_values("OORVOL") then raises KeyError
Project ==
    /\ pc = "score"
    /\ loop_i > Len(VolumeOrder)
    /\ IF results = << >>
       THEN /\ pc' = "raised"
            /\ exc' = Some("sort_values")
            /\ df' = df
       ELSE /\ pc' = "done"
            /\ exc' = exc
            /\ df' \in {Some(d) : d \in SortedByOorvol(results)}
    /\ UNCHANGED <<today_data, prev_data, metadata_map, tickers, vol_data, vol_task,
                   volume_results, volume_map, data_yesterday, data_today, ooh_task,
                   ooh_results, ooh_map, loop_i, scored, results>>

\* ----------------------------------------------------- the data source's answers
RECURSIVE Ascending(_)
Ascending(S) ==
    IF S = {} THEN << >>
    ELSE LET m == CHOOSE x \in S : \A y \in S : x <= y
         IN  <<m>> \o Ascending(S \ {m})

Reverse(s) == [k \in DOMAIN s |-> s[Len(s) + 1 - k]]

\* a grouped-closes answer listing the tickers that closes gives a close for
GroupedItems(closes) ==
    LET o == Ascending({t \in Tickers : closes[t] # None})
    IN  [k \in DOMAIN o |-> [T |-> Some(o[k]), c |-> closes[o[k]]]]

GroupedAnswers(Closes) ==
    {Ok(GroupedItems(f)) : f \in [Tickers -> {None} \cup {Some(c) : c \in Closes}]}

\* an item without its "c" key
MalformedGrouped == Ok(<<[T |-> Some(1), c |-> None]>>)

\* closes around MIN_PRICE, with and without sub-cent digits; prior closes
\* that are zero, negative and positive
UniverseToday ==
    GroupedAnswers({0, 1995, 2000, 12504})
        \cup {Ok(Reverse(GroupedItems([t \in Tickers |-> Some(12504)])))}
        \cup {NetErr, NoResults, MalformedGrouped}
UniversePrev == GroupedAnswers({0, 0 - 1000, 12250}) \cup {NetErr, NoResults}

ScanToday == GroupedAnswers({12504}) \cup {NetErr, MalformedGrouped}
ScanPrev == {Ok(GroupedItems([t \in Tickers |-> Some(12250)]))}

\* n daily samples, newest first (sort=desc): the newest is a, the others c
DailySamples(n, a, c) == [k \in 1..n |-> [v |-> Some(IF k = 1 THEN a ELSE c)]]
MalformedDaily == Ok(<<[v |-> None]>>)

QualifierAnswers ==
    {Ok(DailySamples(n, a, c)) :
        n \in {0, AVG_DAYS - 1} \cup (AVG_DAYS .. AVG_DAYS + MaxExtra),
        a \in {500000, 1000000, 2000000},
        c \in {500000, 1000000, 2000000}}
        \cup {NetErr, NoResults, MalformedDaily}

ScanDaily ==
    {NetErr, NoResults, MalformedDaily,
     Ok(DailySamples(AVG_DAYS - 1, 2000000, 2000000)),
     Ok(DailySamples(AVG_DAYS, 1000000, 1000000))}

\* clock times around the two session boundaries, in milliseconds of the day
ClockTimes ==
    {4 * 3600000,
     9 * 3600000 + 29 * 60000 + 59999,
     9 * 3600000 + 30 * 60000,
     16 * 3600000 - 1,
     16 * 3600000,
     19 * 3600000 + 59 * 60000}

Bar(t, v, c) == [t |-> Some(t), v |-> Some(v), c |-> Some(c)]

\* minute bars in ascending time (sort=asc), at most MaxBars of them
BarLists ==
    LET bars == {Bar(t, x[1], x[2]) :
                    t \in ClockTimes, x \in {<<100000, 12600>>, <<300000, 12750>>}}
    IN  UNION {{s \in [1..n -> bars] :
                   \A k \in 1..n : k < n => s[k].t[1] < s[k + 1].t[1]} : n \in 0..MaxBars}

\* a bar without "v" inside the regular session, and ones without "v" or "t"
\* outside of it
MalformedBars ==
    {Ok(<<[t |-> Some(12 * 3600000), v |-> None, c |-> Some(12600)]>>),
     Ok(<<[t |-> Some(17 * 3600000), v |-> None, c |-> Some(12600)]>>),
     Ok(<<[t |-> Some(8 * 3600000), v |-> None, c |-> Some(12600)]>>),
     Ok(<<[t |-> None, v |-> Some(100000), c |-> Some(12600)]>>)}

AggregatorAnswers == {Ok(s) : s \in BarLists} \cup MalformedBars \cup {NetErr, NoResults}

ScanYesterday == {NetErr, Ok(<<Bar(16 * 3600000, 600000, 12600)>>)}
ScanTodayBars ==
    {Ok(<<Bar(9 * 3600000 + 29 * 60000 + 59999, 600000, 12750)>>),
     Ok(<<Bar(9 * 3600000 + 29 * 60000 + 59999, 400000, 12750)>>),
     Ok(<<Bar(9 * 3600000 + 29 * 60000 + 59999, 1200000, 13000)>>),
     Ok(<<Bar(9 * 3600000 + 29 * 60000 + 59999, 600000, 12600)>>),
     Ok(<<[t |-> None, v |-> Some(100000), c |-> Some(12600)]>>)}

\* ------------------------------------------------------------ specifications
\* the whole scan
Next ==
    \/ GetGroupedData(ScanToday, ScanPrev)
    \/ \E t \in Tickers : VolumeFetch(t, ScanDaily)
    \/ GatherVolume
    \/ GatherVolumeRaise
    \/ \E t \in Tickers : OohFetch(t, ScanYesterday, ScanTodayBars)
    \/ GatherOoh
    \/ GatherOohRaise
    \/ ScoreTicker
    \/ Project

Spec == Init /\ [][Next]_vars

\* get_grouped_data_with_metadata over every pair of grouped answers
NextUniverse == GetGroupedData(UniverseToday, UniversePrev)
SpecUniverse == Init /\ [][NextUniverse]_vars

\* fetch_21d_avg_volume over every daily-volume answer, for each ticker of a
\* full universe
NextQualifier ==
    \/ GetGroupedData({Ok(GroupedItems([t \in Tickers |-> Some(12504)]))}, ScanPrev)
    \/ \E t \in Tickers : VolumeFetch(t, QualifierAnswers)
SpecQualifier == Init /\ [][NextQualifier]_vars

\* fetch_ooh_volume over every pair of minute-bar answers, for the one ticker
\* of a universe of one
NextAggregator ==
    \/ GetGroupedData({Ok(<<[T |-> Some(1), c |-> Some(12504)]>>)}, ScanPrev)
    \/ VolumeFetch(1, {Ok(DailySamples(AVG_DAYS, 1000000, 1000000))})
    \/ GatherVolume
    \/ OohFetch(1, AggregatorAnswers, AggregatorAnswers)
SpecAggregator == Init /\ [][NextAggregator]_vars

\* ---------------------------------------------------------------- properties
\* what the data source answered, read off the recorded responses
AnsweredItems(data) ==
    IF data = None \/ data[1].status = "error" \/ ~data[1].has_results
    THEN << >>
    ELSE data[1].results

InResults(t) == \E j \in DOMAIN results : results[j].Ticker = t
InReturned(t) == df # None /\ \E j \in DOMAIN df[1] : df[1][j].Ticker = t

\* the scan went through the scorer's loop to the projection
Projected == pc \in {"done", "raised"} /\ loop_i >= 1

\* C1: a scan whose surviving result set is empty returns normally, with an
\* empty collection, and raises nothing.
C1_EmptyScanReturnsEmpty ==
    (Projected /\ results = << >>) => (pc = "done" /\ df = Some(<< >>))

\* C2 as stated: a ticker the scorer evaluates is emitted iff its ratio is
\* strictly above OORVOL_THRESHOLD and its percent change strictly above
\* OOH_PRICE_THRESHOLD.
C2_StrictThresholds ==
    \A k \in DOMAIN scored :
        InResults(scored[k].ticker) <=>
            /\ scored[k].oorvol.num * OORVOL_THRESHOLD.den
                  > OORVOL_THRESHOLD.num * scored[k].oorvol.den
            /\ scored[k].ooh_pct_change.num
                  > OOH_PRICE_THRESHOLD * scored[k].ooh_pct_change.den

\* C2 amended: a ticker the scorer evaluates is emitted iff its ratio is at
\* least OORVOL_THRESHOLD and its percent change at least OOH_PRICE_THRESHOLD;
\* a value exactly on a threshold passes.
C2_InclusiveThresholds ==
    \A k \in DOMAIN scored :
        InResults(scored[k].ticker) <=>
            /\ scored[k].oorvol.num * OORVOL_THRESHOLD.den
                  >= OORVOL_THRESHOLD.num * scored[k].oorvol.den
            /\ scored[k].ooh_pct_change.num
                  >= OOH_PRICE_THRESHOLD * scored[k].ooh_pct_change.den

\* a ticker exactly on both thresholds was evaluated and emitted, and another
\* evaluated ticker was not emitted
C2_Witness ==
    /\ \E k \in DOMAIN scored :
        /\ scored[k].oorvol.num * OORVOL_THRESHOLD.den
              = OORVOL_THRESHOLD.num * scored[k].oorvol.den
        /\ scored[k].ooh_pct_change.num
              = OOH_PRICE_THRESHOLD * scored[k].ooh_pct_change.den
        /\ InResults(scored[k].ticker)
    /\ \E k \in DOMAIN scored : ~InResults(scored[k].ticker)

\* C3: a per-ticker fetch that fails (network error or malformed payload)
\* neither ends the sibling fetches nor raises out of main_async.
C3_FetchFailureContained ==
    /\ \A t \in Tickers : vol_task[t] # "cancelled" /\ ooh_task[t] # "cancelled"
    /\ pc = "raised" =>
          exc \notin {Some("fetch_21d_avg_volume"), Some("fetch_ooh_volume")}

\* the close the grouped answer gives for a ticker, if any
AnsweredClose(data, t) ==
    LET items == AnsweredItems(data)
    IN  IF \E k \in DOMAIN items : items[k].T = Some(t)
        THEN items[CHOOSE k \in DOMAIN items : items[k].T = Some(t)].c
        ELSE None

\* C4: a ticker gets a UniverseEntry iff its D-2 close is > 0 and its D-1
\* close is >= MIN_PRICE; without a D-2 close, or with a zero or negative
\* one, it gets none.
C4_UniverseEntryIff ==
    pc = "gather_volume" =>
        \A t \in Tickers :
            t \in DOMAIN metadata_map <=>
                /\ AnsweredClose(today_data, t) # None
                /\ AnsweredClose(prev_data, t) # None
                /\ AnsweredClose(prev_data, t)[1] > 0
                /\ AnsweredClose(today_data, t)[1] >= MIN_PRICE

\* the daily volumes answered for a ticker, newest first
AnsweredVolumes(t) ==
    LET items == AnsweredItems(vol_data[t])
    IN  [k \in DOMAIN items |-> items[k].v[1]]

\* C5: with 21 to 30 samples answered newest first, the average volume is the
\* mean of the 21 most recent ones, the first 21 of the answer.
C5_MostRecentSamples ==
    \A t \in Tickers :
        (vol_task[t] = "done" /\ Len(AnsweredItems(vol_data[t])) >= AVG_DAYS) =>
            LET recent == SumSeq(SubSeq(AnsweredVolumes(t), 1, AVG_DAYS))
            IN  IF recent >= AVG_DAYS * MIN_AVG_VOLUME
                THEN /\ volume_results[t] # None
                     /\ volume_results[t][1].num * AVG_DAYS
                            = recent * volume_results[t][1].den
                ELSE volume_results[t] = None

\* the bars of an answer whose clock time, in milliseconds of the day, is in
\* a range
BarsWithin(data, from, to) ==
    SelectSeq(AnsweredItems(data),
              LAMBDA c : from <= c.t[1] % 86400000 /\ c.t[1] % 86400000 < to)

\* C6: only yesterday's bars at or after 16:00:00 and today's bars before
\* 09:30:00 feed the out-of-hours volume and the boundary prices; a bar of
\* [09:30, 16:00) feeds nothing.
C6_RegularSessionExcluded ==
    \A t \in Tickers :
        ooh_task[t] = "done" =>
            LET post == BarsWithin(data_yesterday[t], 16 * 3600000, 86400000)
                pre == BarsWithin(data_today[t], 0, 9 * 3600000 + 30 * 60000)
                r == ooh_results[t][1]
            IN  /\ r.volume = SumSeq([k \in DOMAIN post |-> post[k].v[1]])
                                + SumSeq([k \in DOMAIN pre |-> pre[k].v[1]])
                /\ r.pre_price = IF pre = << >> THEN None ELSE pre[1].c
                /\ r.post_price = IF post = << >> THEN None ELSE post[Len(post)].c
                /\ (r.pre_start = None) = (pre = << >>)
                /\ (r.post_end = None) = (post = << >>)

\* a bar at exactly 09:30:00 today and one at exactly 16:00:00 yesterday were
\* aggregated, next to a pre-market bar
C6_Witness ==
    \E t \in Tickers :
        /\ ooh_task[t] = "done"
        /\ \E k \in DOMAIN AnsweredItems(data_today[t]) :
              AnsweredItems(data_today[t])[k].t = Some(9 * 3600000 + 30 * 60000)
        /\ \E k \in DOMAIN AnsweredItems(data_today[t]) :
              AnsweredItems(data_today[t])[k].t = Some(9 * 3600000 + 29 * 60000 + 59999)
        /\ \E k \in DOMAIN AnsweredItems(data_yesterday[t]) :
              AnsweredItems(data_yesterday[t])[k].t = Some(16 * 3600000)
        /\ \E k \in DOMAIN AnsweredItems(data_yesterday[t]) :
              AnsweredItems(data_yesterday[t])[k].t = Some(16 * 3600000 - 1)
        /\ ooh_results[t][1].volume > 0

\* C7: the scorer evaluates no ticker, and nothing is emitted or returned,
\* while a spawned fetch is outstanding; an OOH-bar fetch exists only for a
\* ticker of the universe.
C7_Barrier ==
    /\ (loop_i > 1 \/ scored # << >> \/ results # << >> \/ df # None) =>
          \A t \in Tickers :
              vol_task[t] \in {"none", "done"} /\ ooh_task[t] \in {"none", "done"}
    /\ \A t \in Tickers : ooh_task[t] # "none" => t \in DOMAIN metadata_map

\* two tickers were fetched twice each and the scorer has emitted a record
C7_Witness ==
    /\ Cardinality({t \in Tickers : ooh_task[t] = "done"}) >= 2
    /\ loop_i > 1
    /\ results # << >>

\* C8: the returned sequence is the emitted records in descending OORVOL,
\* records with equal OORVOL in the order of their emission.
C8_StableDescending ==
    pc = "done" =>
        \E p \in Perms(Len(results)) :
            /\ df = Some([k \in DOMAIN results |-> results[p[k]]])
            /\ \A a, b \in DOMAIN results :
                  a < b =>
                      \/ results[p[a]].OORVOL > results[p[b]].OORVOL
                      \/ /\ results[p[a]].OORVOL = results[p[b]].OORVOL
                         /\ p[a] < p[b]

\* C9: a ticker answered fewer than 21 daily samples (none, or a failed
\* request, included) gets no average volume, is not in volume_map, gets no
\* OOH-bar fetch and is in no result.
C9_TooFewSamplesDropped ==
    \A t \in Tickers :
        (vol_data[t] # None /\ Len(AnsweredItems(vol_data[t])) < AVG_DAYS) =>
            /\ volume_results[t] = None
            /\ t \notin DOMAIN volume_map
            /\ ooh_task[t] = "none"
            /\ data_yesterday[t] = None /\ data_today[t] = None
            /\ ~InResults(t)
            /\ ~InReturned(t)

\* a ticker with 20 well-formed samples was dropped from a scan that returned
\* another ticker
C9_Witness ==
    /\ pc = "done"
    /\ \E t \in Tickers :
          /\ vol_task[t] = "done"
          /\ Len(AnsweredItems(vol_data[t])) = AVG_DAYS - 1
          /\ \E u \in Tickers : u # t /\ InReturned(u)

\* the first pre-market close price of today's bars of a ticker
AnchorPrice(t) == BarsWithin(data_today[t], 0, 9 * 3600000 + 30 * 60000)[1].c[1]

\* C10 as stated: ooh_pct_change is (anchor_price - prev_close) / prev_close
\* * 100 with the UniverseEntry's prev_close, the D-2 close.
C10_AgainstPrevClose ==
    \A k \in DOMAIN scored :
        LET t == scored[k].ticker
            base == metadata_map[t].prev_close
        IN  scored[k].ooh_pct_change.num * base
                = (AnchorPrice(t) - base) * 100 * scored[k].ooh_pct_change.den

\* C10 amended: ooh_pct_change is (anchor_price - close) / close * 100 with
\* the UniverseEntry's close, the D-1 close rounded to 2 decimals; the
\* threshold test and the emitted percent change both use that close.
C10_AgainstLastClose ==
    /\ \A k \in DOMAIN scored :
          LET t == scored[k].ticker
              base == metadata_map[t].close
          IN  scored[k].ooh_pct_change.num * base
                  = (AnchorPrice(t) - base) * 100 * scored[k].ooh_pct_change.den
    /\ \A j \in DOMAIN results :
          LET t == results[j].Ticker
              base == metadata_map[t].close
              exact == (AnchorPrice(t) - base) * 10000
              off == results[j].OOHPctChange * base - exact
          IN  /\ results[j].LastClose = base
              /\ 2 * off <= base /\ 2 * off >= 0 - base
              /\ (AnchorPrice(t) - base) * 100 >= OOH_PRICE_THRESHOLD * base

\* a ticker whose close differs from its prev_close was evaluated and emitted
C10_Witness ==
    \E j \in DOMAIN results :
        /\ metadata_map[results[j].Ticker].close
              # metadata_map[results[j].Ticker].prev_close
        /\ \E k \in DOMAIN scored : scored[k].ticker = results[j].Ticker

====
